---- MODULE Spec2Model ----
(***************************************************************************)
(* Model of the bg-prov command surface (cmd/bg-prov/cmd.go) of the        *)
(* converged-security-suite: the generate / sign / stitch / export /       *)
(* keygen commands, each modelled as one action that runs the whole        *)
(* handler on inputs drawn from small sets.                                *)
(*                                                                         *)
(* The manifest library the handlers call (pkg/intel/metadata/manifest,    *)
(* pkg/provisioning/bg) is not part of the sources at hand; its operators  *)
(* below follow the design document (sections 3 and 4) and are marked so.  *)
(*                                                                         *)
(* Serialized manifests are sequences of small naturals ("bytes").         *)
(***************************************************************************)
EXTENDS Integers, Sequences, FiniteSets, TLC

\* ------------------------------------------------------------------ bounds

\* Longest key-hash list (KM) / digest list (BPM IBB element) of the model.
MaxList == 1

\* Longest payload file of the stitch command.
MaxPayload == 2

\* Longest serialized buffer handed to the truncation step on its own.
MaxLen == 3

\* ------------------------------------------------------------- primitives

\* Values a one-byte manifest field takes in the model.
V == {0, 1}

\* The error value "no error".
nil == "nil"

RECURSIVE Sum(_)
Sum(s) == IF s = <<>> THEN 0 ELSE Head(s) + Sum(Tail(s))

\* All sequences over S of length at most n.
SeqUpTo(S, n) == UNION {[1..k -> S] : k \in 0..n}

\* Go's b[:n] for n <= len(b).
Prefix(b, n) == SubSeq(b, 1, n)

\* Go's b[:n] on a slice of length Len(b) and capacity cap >= Len(b): a
\* runtime panic when n exceeds the capacity; within the capacity the result
\* runs on over the bytes behind the length (fill).
GoSlice(b, n, cap, fill) ==
    IF n <= Len(b) THEN [panic |-> FALSE, bytes |-> Prefix(b, n)]
    ELSE IF n <= cap THEN [panic |-> FALSE, bytes |-> b \o [k \in 1..(n - Len(b)) |-> fill]]
    ELSE [panic |-> TRUE, bytes |-> <<>>]

\* A digest over a sequence of bytes (one byte wide in the model).
DigestOf(b) == (Sum(b) + Len(b) + 1) % 2

\* ------------------------------------------------------------------- keys

\* Kinds of object a decrypted PKCS8 container may hold: the two supported
\* signing keys, another key that implements crypto.Signer, and a key object
\* that does not implement crypto.Signer.
KeyKinds == {"RSA", "ECDSA", "OtherSigner", "NonSigner"}

\* Whether the Go object implements crypto.Signer.
ImplementsSigner(kind) == kind \in {"RSA", "ECDSA", "OtherSigner"}

\* The key-algorithm tag a key kind is recorded as (0: unpopulated).
KeyAlgOf(kind) == CASE kind = "RSA" -> 1 [] kind = "ECDSA" -> 2 [] OTHER -> 0

\* The public key material bound for a key kind (one byte in the model).
KeyDataOf(kind) == CASE kind = "RSA" -> 1 [] kind = "ECDSA" -> 0 [] OTHER -> 0

\* The signature bytes over data under a private key (one byte in the model).
SignBytes(kind, data) == <<(KeyAlgOf(kind) + Sum(data) + Len(data)) % 2>>

\* ------------------------------------------------- signature element (PMSE)

\* manifest.Key: unpopulated key descriptor.
NewKey == [KeyAlg |-> 0, Data |-> 0]

\* manifest.Signature: unpopulated signature descriptor.
NewSig == [HashAlg |-> 0, Data |-> <<>>]

\* bootpolicy.NewSignature / the zero KeyAndSignature of a key manifest.
NewSignature == [Key |-> NewKey, Signature |-> NewSig]

\* Key.SetPubKey: binds a public key; only RSA and elliptic-curve keys are
\* supported.
SetPubKey(k, kind) ==
    IF kind \in {"RSA", "ECDSA"}
    THEN [err |-> nil, key |-> [KeyAlg |-> KeyAlgOf(kind), Data |-> KeyDataOf(kind)]]
    ELSE [err |-> "UnsupportedKeyError", key |-> k]

\* Signature.SetSignature(signAlgo, privKey, signedData): signs the data and
\* fills the signature descriptor. It sees no key descriptor.
SignatureSetSignature(sig, algo, kind, data) ==
    IF kind \in {"RSA", "ECDSA"}
    THEN [err |-> nil, sig |-> [HashAlg |-> 1, Data |-> SignBytes(kind, data)]]
    ELSE [err |-> "UnsupportedKeyError", sig |-> sig]

\* KeySignature.SetSignature, as key.Manifest.SetSignature calls it: the key
\* kind must match the kind recorded when the public key was bound.
KeySignatureSetSignature(ks, algo, kind, data) ==
    IF kind \notin {"RSA", "ECDSA"} \/ KeyAlgOf(kind) # ks.Key.KeyAlg
    THEN [err |-> "KeyAlgorithmMismatchError", ks |-> ks]
    ELSE LET r == SignatureSetSignature(ks.Signature, algo, kind, data)
         IN  [err |-> r.err, ks |-> [ks EXCEPT !.Signature = r.sig]]

\* Serialized key descriptor and signature descriptor.
KeyBytes(k) == <<k.KeyAlg, k.Data>>
SigBytes(s) == <<s.HashAlg, Len(s.Data)>> \o s.Data

\* End-of-input error of a decoder that finds need > 0 more bytes wanting at
\* position pos (1-based) of b: io.EOF when not one byte is left, a truncated
\* input otherwise.
ShortRead(b, pos) == IF pos > Len(b) THEN "EOF" ELSE "TruncatedInputError"

\* Decodes a key descriptor at pos.
ReadKey(b, pos) ==
    IF Len(b) < pos + 1
    THEN [err |-> ShortRead(b, pos), key |-> NewKey, pos |-> pos]
    ELSE [err |-> nil, key |-> [KeyAlg |-> b[pos], Data |-> b[pos + 1]], pos |-> pos + 2]

\* Decodes a signature descriptor at pos.
ReadSig(b, pos) ==
    IF Len(b) < pos + 1
    THEN [err |-> ShortRead(b, pos), sig |-> NewSig, pos |-> pos]
    ELSE IF Len(b) < pos + 1 + b[pos + 1]
    THEN [err |-> "TruncatedInputError", sig |-> NewSig, pos |-> pos]
    ELSE [err |-> nil,
          sig |-> [HashAlg |-> b[pos], Data |-> SubSeq(b, pos + 2, pos + 1 + b[pos + 1])],
          pos |-> pos + 2 + b[pos + 1]]

\* ------------------------------------------------------------ key manifest

\* key.NewManifest(): a key manifest with unpopulated signature element.
NewManifest ==
    [Revision |-> 0, KMSVN |-> 0, KMID |-> 0, PubKeyHashAlg |-> 0, Hash |-> <<>>,
     Digest |-> 0, KeyManifestSignatureOffset |-> 0, KeyAndSignature |-> NewSignature]

\* The bytes of a key manifest that its digest commits to.
KMBody(m) == <<m.Revision, m.KMSVN, m.KMID, m.PubKeyHashAlg, Len(m.Hash)>> \o m.Hash

\* signedRegionEnd of a key manifest: the offset at which the signature
\* descriptor starts (body, digest and key descriptor lie before it).
KeyAndSignatureOffset(m) == Len(KMBody(m)) + 1 + Len(KeyBytes(m.KeyAndSignature.Key))

\* The byte layout of a key manifest.
KMBytes(m) ==
    KMBody(m) \o <<m.Digest>> \o KeyBytes(m.KeyAndSignature.Key)
              \o SigBytes(m.KeyAndSignature.Signature)

\* bg.WriteKM(&km): lays out the bytes and records the offsets derived from
\* this serialization in the manifest; computes no digest.
WriteKM(m) ==
    [err |-> nil, bytes |-> KMBytes(m),
     km |-> [m EXCEPT !.KeyManifestSignatureOffset = KeyAndSignatureOffset(m)]]

\* key.Manifest.ReadFrom: decodes one key manifest from the head of b.
KMReadFrom(b) ==
    IF Len(b) < 5 \/ Len(b) < 5 + b[5] + 1
    THEN [err |-> ShortRead(b, 1), km |-> NewManifest]
    ELSE LET n  == b[5]
             k  == ReadKey(b, 5 + n + 2)
             s  == ReadSig(b, k.pos)
             m  == [Revision |-> b[1], KMSVN |-> b[2], KMID |-> b[3],
                    PubKeyHashAlg |-> b[4], Hash |-> SubSeq(b, 6, 5 + n),
                    Digest |-> b[5 + n + 1],
                    KeyManifestSignatureOffset |-> 5 + n + 3,
                    KeyAndSignature |-> [Key |-> k.key, Signature |-> s.sig]]
         IN  [err |-> IF k.err # nil THEN k.err ELSE s.err, km |-> m]

\* key.Manifest.RehashRecursive: recomputes the digest over the current body
\* and the derived offset.
KMRehashRecursive(m) ==
    [m EXCEPT !.Digest = DigestOf(KMBody(m)),
              !.KeyManifestSignatureOffset = KeyAndSignatureOffset(m)]

\* key.Manifest.SetSignature(signAlgo, privKey, signedData).
KMSetSignature(m, algo, kind, data) ==
    LET r == KeySignatureSetSignature(m.KeyAndSignature, algo, kind, data)
    IN  [err |-> r.err, km |-> [m EXCEPT !.KeyAndSignature = r.ks]]

\* ----------------------------------------------------- boot policy manifest

\* bootpolicy.NewSE(): an IBB element with an empty digest list.
NewSE == [PBETValue |-> 0, DigestList |-> <<>>]

\* The zero bootpolicy.Manifest (var bgo bg.BootGuardOptions).
ZeroBPM ==
    [BPMRevision |-> 0, BPMSVN |-> 0, SE |-> <<>>, TXTE |-> <<>>, Digest |-> 0,
     KeySignatureOffset |-> 0, PMSE |-> NewSignature]

SEBytes(se) == <<se.PBETValue, Len(se.DigestList)>> \o se.DigestList

RECURSIVE SEListBytes(_)
SEListBytes(ses) == IF ses = <<>> THEN <<>> ELSE SEBytes(Head(ses)) \o SEListBytes(Tail(ses))

\* The bytes of a boot policy manifest that its digest commits to: header,
\* IBB elements, optional TXT element (a list of at most one entry).
BPMBody(m) ==
    <<m.BPMRevision, m.BPMSVN, Len(m.SE)>> \o SEListBytes(m.SE)
        \o <<Len(m.TXTE)>> \o m.TXTE

\* signedRegionEnd of a boot policy manifest: the offset at which the
\* signature descriptor of the PMSE starts.
PMSEOffset(m) == Len(BPMBody(m)) + 1 + Len(KeyBytes(m.PMSE.Key))

BPMBytes(m) == BPMBody(m) \o <<m.Digest>> \o KeyBytes(m.PMSE.Key) \o SigBytes(m.PMSE.Signature)

\* bg.WriteBPM(bpm): fails on a manifest without IBB element; otherwise lays
\* out the bytes and records the offsets derived from this serialization.
WriteBPM(m) ==
    IF m.SE = <<>>
    THEN [err |-> "InvalidManifestError", bytes |-> <<>>, bpm |-> m]
    ELSE [err |-> nil, bytes |-> BPMBytes(m),
          bpm |-> [m EXCEPT !.KeySignatureOffset = PMSEOffset(m)]]

\* bootpolicy.Manifest.RehashRecursive.
BPMRehashRecursive(m) ==
    [m EXCEPT !.Digest = DigestOf(BPMBody(m)), !.KeySignatureOffset = PMSEOffset(m)]

\* Decodes count IBB elements at pos.
RECURSIVE ReadSEs(_, _, _)
ReadSEs(b, pos, count) ==
    IF count = 0 THEN [err |-> nil, ses |-> <<>>, pos |-> pos]
    ELSE IF Len(b) < pos + 1 \/ Len(b) < pos + 1 + b[pos + 1]
    THEN [err |-> ShortRead(b, pos), ses |-> <<>>, pos |-> pos]
    ELSE LET se   == [PBETValue |-> b[pos],
                      DigestList |-> SubSeq(b, pos + 2, pos + 1 + b[pos + 1])]
             rest == ReadSEs(b, pos + 2 + b[pos + 1], count - 1)
         IN  [err |-> rest.err, ses |-> <<se>> \o rest.ses, pos |-> rest.pos]

\* bootpolicy.Manifest.ReadFrom: decodes header, IBB elements, TXT element,
\* digest and PMSE in this order and stops at the first element that cannot be
\* read, leaving the elements after it at their zero value.
BPMReadFrom(b) ==
    IF Len(b) < 3 THEN [err |-> ShortRead(b, 1), bpm |-> ZeroBPM]
    ELSE LET hdr == [ZeroBPM EXCEPT !.BPMRevision = b[1], !.BPMSVN = b[2]]
             s   == ReadSEs(b, 4, b[3])
         IN
         IF s.err # nil THEN [err |-> s.err, bpm |-> [hdr EXCEPT !.SE = s.ses]]
         ELSE IF Len(b) < s.pos \/ Len(b) < s.pos + b[s.pos] + 1
         THEN [err |-> ShortRead(b, s.pos), bpm |-> [hdr EXCEPT !.SE = s.ses]]
         ELSE LET t  == s.pos + b[s.pos]
                  k  == ReadKey(b, t + 2)
                  g  == ReadSig(b, k.pos)
                  m  == [hdr EXCEPT !.SE = s.ses,
                                    !.TXTE = SubSeq(b, s.pos + 1, t),
                                    !.Digest = b[t + 1],
                                    !.KeySignatureOffset = t + 3,
                                    !.PMSE = [Key |-> k.key, Signature |-> g.sig]]
              IN  [err |-> IF k.err # nil THEN k.err ELSE g.err, bpm |-> m]

\* ------------------------------------------------------------------ state

\* The files a command may create or write.
Paths ==
    {"KM", "BPM", "Out", "KmOut", "BpmOut", "ExportOut", "Config", "Template",
     "km_pub.pem", "km_priv.pem", "bpm_pub.pem", "bpm_priv.pem"}

\* A path the run has not touched, a file created (and truncated) by
\* os.Create, a file with content written.
NoFile == [exists |-> FALSE, data |-> <<>>]
Created == [exists |-> TRUE, data |-> <<>>]
Written(b) == [exists |-> TRUE, data |-> b]

NoFiles == [p \in Paths |-> NoFile]

\* What one run of a handler leaves behind:
\*   ret      the error value returned ("nil": none), or "panic" for a
\*            runtime abort of the process
\*   log      the calls made, in order
\*   files    the output files created or written
\*   signed   the calls of the signer: the data handed over, the buffer it
\*            was sliced from and the log position that produced that buffer
\*   stitched the calls of bg.StitchFITEntries with their payloads
\*   man      the manifest assembled in memory, once there is one
Outcome(ret, log, files, signed, stitched, man) ==
    [ret |-> ret, log |-> log, files |-> files, signed |-> signed,
     stitched |-> stitched, man |-> man]

VARIABLES
    pc,     \* "idle" before the command runs, "done" after
    cmd,    \* the command run
    inp,    \* its arguments and what its environment answers
    out     \* its Outcome

vars == <<pc, cmd, inp, out>>

Init ==
    /\ pc = "idle"
    /\ cmd = "none"
    /\ inp = <<>>
    /\ out = Outcome(nil, <<>>, NoFiles, <<>>, <<>>, <<>>)

\* One command line invocation runs one handler from start to end: Next
\* starts a handler only at "idle".
Invoke(c, i, o) ==
    /\ pc' = "done"
    /\ cmd' = c
    /\ inp' = i
    /\ out' = o

\* ----------------------------------------------------------------- stitch

\* ioutil.ReadFile: the bytes read, and whether an error came with them.
ReadResults(n) == [err : BOOLEAN, data : SeqUpTo(V, n)]

\* A slip of the guard: || for &&.
NoPayloadAny(acm, km, bpm) == Len(acm) = 0 \/ Len(km) = 0 \/ Len(bpm) = 0

\* The guard of stitchingCmd.Run.
NoPayload(acm, km, bpm) == Len(acm) = 0 /\ Len(km) = 0 /\ Len(bpm) = 0

\* stitchingCmd.Run. i.bpm, i.km, i.acm: what ReadFile returns for the three
\* paths (the errors are dropped); i.fit: whether the BIOS image holds a FIT.
stitchingCmdRun(i) ==
    LET bpm == i.bpm.data
        km  == i.km.data
        acm == i.acm.data
        rd  == <<"ReadFile(BPM)", "ReadFile(KM)", "ReadFile(ACM)">>
    IN  IF NoPayload(acm, km, bpm)
        THEN Outcome("NoPayloadError", rd, NoFiles, <<>>, <<>>, <<>>)
        ELSE Outcome(IF i.fit THEN nil ELSE "FITNotFoundError",
                     rd \o <<"StitchFITEntries">>, NoFiles, <<>>,
                     <<[acm |-> acm, bpm |-> bpm, km |-> km]>>, <<>>)

Stitch ==
    /\ pc = "idle"
    /\ \E b, k, a \in ReadResults(MaxPayload), fit \in BOOLEAN :
        LET i == [bpm |-> b, km |-> k, acm |-> a, fit |-> fit]
        IN  Invoke("stitch", i, stitchingCmdRun(i))

\* --------------------------------------------------------------- generate

\* The external calls of generateKMCmd.Run that may fail, "none" for a run in
\* which none does.
KMFailPoints ==
    {"none", "ParseConfig", "GetBPMPubHash", "ReadPubKey", "PrintMEKey",
     "Create(Out)", "WriteConfig", "WriteFile(KM)"}

\* The else branch of generateKMCmd.Run: the default key manifest with the
\* flags applied; hash is the key-hash list (KMHashes, or the hash of the BPM
\* public key).
tmpKM(g, hash) ==
    [NewManifest EXCEPT !.Revision = g.Revision, !.KMSVN = g.SVN, !.KMID = g.ID,
                        !.PubKeyHashAlg = g.PKHashAlg, !.Hash = hash]

\* The key manifest of the options generateKMCmd.Run assembles from: the
\* parsed config file when --config is given, else the flags.
optionsKM(g, cfg, kh) ==
    IF g.Config THEN cfg
    ELSE tmpKM(g, IF g.BpmPubkey THEN kh ELSE g.KMHashes)

\* A slip of cutKM: the cut at the offset the manifest had before its
\* key-hash list was assigned.
cutKMStale(bKM, km, cap, fill) ==
    GoSlice(bKM, km.KeyManifestSignatureOffset - Len(km.Hash), cap, fill)

\* bKM = bKM[:int(options.KeyManifest.KeyManifestSignatureOffset)], on a
\* buffer of capacity cap whose bytes behind the length read fill.
cutKM(bKM, km, cap, fill) == GoSlice(bKM, km.KeyManifestSignatureOffset, cap, fill)

\* generateKMCmd.Run. i.g: the arguments; i.cfg: the key manifest of the
\* config file; i.kh: the hash bg.GetBPMPubHash returns; i.pub: the kind of
\* the public key file; i.fail: the external call that fails.
generateKMCmdRun(i) ==
    LET g     == i.g
        l1    == IF g.Config THEN <<"ParseConfig">>
                 ELSE <<"NewManifest">> \o (IF g.BpmPubkey THEN <<"GetBPMPubHash">> ELSE <<>>)
        l2    == l1 \o <<"ReadPubKey">>
        l3    == l2 \o <<"SetPubKey">>
        l4    == l3 \o (IF g.PrintME THEN <<"PrintMEKey">> ELSE <<>>)
        l5    == l4 \o <<"WriteKM">>
        l6    == l5 \o (IF g.Out THEN <<"Create(Out)">> ELSE <<>>)
        l7    == l6 \o (IF g.Out THEN <<"WriteConfig">> ELSE <<>>)
        l8    == l7 \o <<"WriteFile(KM)">>
        opt   == optionsKM(g, i.cfg, i.kh)
        sp    == SetPubKey(opt.KeyAndSignature.Key, i.pub)
        keyed == [opt EXCEPT !.KeyAndSignature.Key = sp.key]
        wr    == WriteKM(keyed)
        f6    == IF g.Out THEN [NoFiles EXCEPT !["Out"] = Created] ELSE NoFiles
        f7    == IF g.Out THEN [NoFiles EXCEPT !["Out"] = Written(<<1>>)] ELSE NoFiles
        cut   == IF g.Cut THEN cutKM(wr.bytes, wr.km, Len(wr.bytes), 0)
                 ELSE [panic |-> FALSE, bytes |-> wr.bytes]
        Stop(e, l, f, m) == Outcome(e, l, f, <<>>, <<>>, m)
    IN  IF g.Config /\ i.fail = "ParseConfig" THEN Stop("ParseConfigError", l1, NoFiles, <<>>)
        ELSE IF ~g.Config /\ g.BpmPubkey /\ i.fail = "GetBPMPubHash"
        THEN Stop("ReadFileError", l1, NoFiles, <<>>)
        ELSE IF i.fail = "ReadPubKey" THEN Stop("ReadFileError", l2, NoFiles, <<>>)
        ELSE IF sp.err # nil THEN Stop(sp.err, l3, NoFiles, <<>>)
        ELSE IF g.PrintME /\ i.fail = "PrintMEKey" THEN Stop("PrintMEKeyError", l4, NoFiles, <<keyed>>)
        ELSE IF wr.err # nil THEN Stop(wr.err, l5, NoFiles, <<wr.km>>)
        ELSE IF g.Out /\ i.fail = "Create(Out)" THEN Stop("CreateError", l6, NoFiles, <<wr.km>>)
        ELSE IF g.Out /\ i.fail = "WriteConfig" THEN Stop("WriteConfigError", l7, f6, <<wr.km>>)
        ELSE IF cut.panic THEN Stop("panic", l7, f7, <<wr.km>>)
        ELSE IF i.fail = "WriteFile(KM)" THEN Stop("WriteFileError", l8, f7, <<wr.km>>)
        ELSE Stop(nil, l8, [f7 EXCEPT !["KM"] = Written(cut.bytes)], <<wr.km>>)

\* The flags of generate-KM that set manifest fields.
KMFlags ==
    [Revision : {1}, SVN : V, ID : V, PKHashAlg : {1}, KMHashes : SeqUpTo(V, MaxList)]

\* Key manifests a config file may hold.
ConfigKMs ==
    {[NewManifest EXCEPT !.KMSVN = v, !.Digest = d, !.KeyManifestSignatureOffset = o] :
        v \in V, d \in V, o \in V}

\* Whether the failing call is one the run with arguments g can reach.
KMFailApplies(g, f) ==
    CASE f = "ParseConfig" -> g.Config
      [] f = "GetBPMPubHash" -> ~g.Config /\ g.BpmPubkey
      [] f = "PrintMEKey" -> g.PrintME
      [] f \in {"Create(Out)", "WriteConfig"} -> g.Out
      [] OTHER -> TRUE

KmGen ==
    /\ pc = "idle"
    /\ \E fl \in KMFlags, c, bp, o, ct, pm \in BOOLEAN, cfg \in ConfigKMs,
       pub \in {"RSA", "ECDSA", "OtherSigner"}, f \in KMFailPoints :
        LET g == [Config |-> c, Revision |-> fl.Revision, SVN |-> fl.SVN, ID |-> fl.ID,
                  PKHashAlg |-> fl.PKHashAlg, KMHashes |-> fl.KMHashes,
                  BpmPubkey |-> bp, Out |-> o, Cut |-> ct, PrintME |-> pm]
            i == [g |-> g, cfg |-> IF c THEN cfg ELSE NewManifest, kh |-> <<1>>,
                  pub |-> pub, fail |-> f]
        IN  /\ KMFailApplies(g, f)
            /\ Invoke("generate-KM", i, generateKMCmdRun(i))

\* The external calls of generateBPMCmd.Run that may fail.
BPMFailPoints ==
    {"none", "ParseConfig", "GenerateBPM", "Create(Out)", "WriteConfig", "WriteFile(BPM)"}

\* The else branch of generateBPMCmd.Run: the zero manifest with the flags
\* applied: header fields, one IBB element (with one digest-list entry per
\* --ibbhash algorithm, holding the algorithm) and the TXT element. The flags
\* left out here (ACMSVN, NEMS, the BAR and DMA addresses, the IBB segment,
\* the other TXT fields) are assigned the same way.
bgoBPM(g) ==
    [ZeroBPM EXCEPT !.BPMRevision = g.Revision, !.BPMSVN = g.SVN,
                    !.SE = <<[NewSE EXCEPT !.PBETValue = g.PBET,
                                           !.DigestList = [k \in 1..Len(g.IbbHash) |-> g.IbbHash[k]]]>>,
                    !.TXTE = <<g.SintMin>>]

\* The boot policy manifest of the options generateBPMCmd.Run builds from.
optionsBPM(g, cfg) == IF g.Config THEN cfg ELSE bgoBPM(g)

\* The digest of the IBB content of the BIOS image under one algorithm.
IBBDigest(alg, bios) == (alg + bios) % 2

\* bg.GenerateBPM(options, biosFile): the manifest of the options with the
\* IBB digests computed over the BIOS image and the digests recomputed; the
\* signature element is left unpopulated.
GenerateBPM(opt, bios) ==
    LET withIBB == [opt EXCEPT !.SE = [k \in 1..Len(opt.SE) |->
                       [opt.SE[k] EXCEPT !.DigestList =
                           [j \in 1..Len(opt.SE[k].DigestList) |->
                               IBBDigest(opt.SE[k].DigestList[j], bios)]]]]
    IN  [withIBB EXCEPT !.Digest = DigestOf(BPMBody(withIBB)), !.PMSE = NewSignature]

\* The placeholder tags generateBPMCmd.Run writes into the signature element.
PlaceholderKeyAlg == 1
PlaceholderHashAlg == 1

\* bpm.PMSE.Key.KeyAlg = 0x01; bpm.PMSE.Signature.HashAlg = 0x01
hackPMSE(bpm) ==
    [bpm EXCEPT !.PMSE.Key.KeyAlg = PlaceholderKeyAlg,
                !.PMSE.Signature.HashAlg = PlaceholderHashAlg]

\* bBPM = bBPM[:bpm.PMSEOffset()]
cutBPM(bBPM, bpm) == GoSlice(bBPM, PMSEOffset(bpm), Len(bBPM), 0)

\* generateBPMCmd.Run. i.g: the arguments; i.cfg: the boot policy manifest of
\* the config file; i.bios: the IBB content of the BIOS image; i.fail: the
\* external call that fails.
generateBPMCmdRun(i) ==
    LET g     == i.g
        l1    == IF g.Config THEN <<"ParseConfig">> ELSE <<"NewSE", "NewIBBSegment", "NewTXT">>
        l2    == l1 \o <<"GenerateBPM">>
        l3    == l2 \o (IF g.Out THEN <<"Create(Out)">> ELSE <<>>)
        l4    == l3 \o (IF g.Out THEN <<"WriteConfig">> ELSE <<>>)
        l5    == l4 \o <<"WriteBPM">>
        l6    == l5 \o <<"WriteFile(BPM)">>
        opt   == optionsBPM(g, i.cfg)
        bpm   == hackPMSE(GenerateBPM(opt, i.bios))
        f3    == IF g.Out THEN [NoFiles EXCEPT !["Out"] = Created] ELSE NoFiles
        f4    == IF g.Out THEN [NoFiles EXCEPT !["Out"] = Written(<<1>>)] ELSE NoFiles
        wr    == WriteBPM(bpm)
        cut   == IF g.Cut THEN cutBPM(wr.bytes, wr.bpm)
                 ELSE [panic |-> FALSE, bytes |-> wr.bytes]
        Stop(e, l, f, m) == Outcome(e, l, f, <<>>, <<>>, m)
    IN  IF g.Config /\ i.fail = "ParseConfig" THEN Stop("ParseConfigError", l1, NoFiles, <<>>)
        ELSE IF i.fail = "GenerateBPM" THEN Stop("GenerateBPMError", l2, NoFiles, <<>>)
        ELSE IF g.Out /\ i.fail = "Create(Out)" THEN Stop("CreateError", l3, NoFiles, <<bpm>>)
        ELSE IF g.Out /\ i.fail = "WriteConfig" THEN Stop("WriteConfigError", l4, f3, <<bpm>>)
        ELSE IF wr.err # nil THEN Stop(wr.err, l5, f4, <<bpm>>)
        ELSE IF cut.panic THEN Stop("panic", l5, f4, <<wr.bpm>>)
        ELSE IF i.fail = "WriteFile(BPM)" THEN Stop("WriteFileError", l6, f4, <<wr.bpm>>)
        ELSE Stop(nil, l6, [f4 EXCEPT !["BPM"] = Written(cut.bytes)], <<wr.bpm>>)

\* The flags of generate-BPM that set manifest fields.
BPMFlags ==
    [Revision : {1}, SVN : V, PBET : V, IbbHash : SeqUpTo({1}, MaxList), SintMin : V]

\* Boot policy manifests a config file may hold: with one IBB element or
\* none, with or without TXT element.
ConfigBPMs ==
    {[ZeroBPM EXCEPT !.BPMSVN = v, !.SE = ses, !.TXTE = t] :
        v \in V, ses \in {<<>>, <<NewSE>>, <<[NewSE EXCEPT !.DigestList = <<1>>]>>},
        t \in {<<>>, <<1>>}}

BPMFailApplies(g, f) ==
    CASE f = "ParseConfig" -> g.Config
      [] f \in {"Create(Out)", "WriteConfig"} -> g.Out
      [] OTHER -> TRUE

BpmGen ==
    /\ pc = "idle"
    /\ \E fl \in BPMFlags, c, o, ct \in BOOLEAN, cfg \in ConfigBPMs, bios \in V,
          f \in BPMFailPoints :
        LET g == [Config |-> c, Revision |-> fl.Revision, SVN |-> fl.SVN, PBET |-> fl.PBET,
                  IbbHash |-> fl.IbbHash, SintMin |-> fl.SintMin, Out |-> o, Cut |-> ct]
            i == [g |-> g, cfg |-> IF c THEN cfg ELSE ZeroBPM, bios |-> bios, fail |-> f]
        IN  /\ BPMFailApplies(g, f)
            /\ Invoke("generate-BPM", i, generateBPMCmdRun(i))

\* ------------------------------------------------------------------- sign

\* What reading and decrypting the private key file gives: a failure of
\* ReadFile, a failure of bg.DecryptPrivKey, or a key object.
KeyInputs == {"unreadable", "undecryptable"} \cup KeyKinds

\* Position of the first entry e of log l (0: none).
IndexOf(l, e) == IF \E k \in 1..Len(l) : l[k] = e
                 THEN CHOOSE k \in 1..Len(l) : l[k] = e /\ \A j \in 1..(k - 1) : l[j] # e
                 ELSE 0

\* The calls of signKMCmd.Run in the order of its statements.
signKMLog ==
    <<"ReadFile(Key)", "DecryptPrivKey", "ReadFile(KmIn)", "ReadFrom",
      "RehashRecursive", "SetSignature", "WriteKM", "WriteFile(KmOut)">>

\* A slip of unsignedKM: the whole input buffer is handed to the signer.
unsignedKMWhole(kmRaw, km) == [panic |-> FALSE, bytes |-> kmRaw]

\* unsignedKM := kmRaw[:km.KeyAndSignatureOffset()]
unsignedKM(kmRaw, km) == GoSlice(kmRaw, KeyAndSignatureOffset(km), Len(kmRaw), 0)

\* signKMCmd.Run. i.key: the private key file; i.kmIn: ReadFile of the input
\* manifest; i.writeErr: whether the final WriteFile fails.
signKMCmdRun(i) ==
    LET L       == signKMLog
        Stop(e, n) == Outcome(e, Prefix(L, n), NoFiles, <<>>, <<>>, <<>>)
        kmRaw   == i.kmIn.data
        rd      == KMReadFrom(kmRaw)
        km      == KMRehashRecursive(rd.km)
        cut     == unsignedKM(kmRaw, km)
        call    == [data |-> cut.bytes, buf |-> kmRaw,
                    bufAt |-> IndexOf(L, "ReadFile(KmIn)"),
                    at |-> IndexOf(L, "SetSignature"), key |-> i.key]
        sg      == KMSetSignature(km, 0, i.key, cut.bytes)
        wr      == WriteKM(sg.km)
    IN  IF i.key = "unreadable" THEN Stop("ReadFileError", 1)
        ELSE IF i.key = "undecryptable" THEN Stop("DecryptError", 2)
        ELSE IF i.kmIn.err THEN Stop("ReadFileError", 3)
        ELSE IF rd.err # nil THEN Stop(rd.err, 4)
        ELSE IF cut.panic \/ ~ImplementsSigner(i.key)
        THEN Outcome("panic", Prefix(L, 5), NoFiles, <<>>, <<>>, <<km>>)
        ELSE IF sg.err # nil
        THEN Outcome(sg.err, Prefix(L, 6), NoFiles, <<call>>, <<>>, <<sg.km>>)
        ELSE IF wr.err # nil
        THEN Outcome(wr.err, Prefix(L, 7), NoFiles, <<call>>, <<>>, <<wr.km>>)
        ELSE IF i.writeErr
        THEN Outcome("WriteFileError", L, NoFiles, <<call>>, <<>>, <<wr.km>>)
        ELSE Outcome(nil, L, [NoFiles EXCEPT !["KmOut"] = Written(wr.bytes)],
                     <<call>>, <<>>, <<wr.km>>)

\* Key manifests an input file may hold: any body, a digest that is current
\* or stale, a bound RSA or elliptic-curve key or none, signed or not.
SampleKMs ==
    {[NewManifest EXCEPT !.KMSVN = v, !.Hash = h, !.Digest = d,
                         !.KeyAndSignature = [Key |-> k, Signature |-> g]] :
        v \in V, h \in SeqUpTo(V, MaxList), d \in V,
        k \in {NewKey, SetPubKey(NewKey, "RSA").key, SetPubKey(NewKey, "ECDSA").key},
        g \in {NewSig, [HashAlg |-> 1, Data |-> <<1>>]}}

\* Input files of sign-KM: whole manifests, manifests cut at the signed
\* region's end, and an empty file.
KMInputs ==
    {KMBytes(m) : m \in SampleKMs}
        \cup {Prefix(KMBytes(m), KeyAndSignatureOffset(m)) : m \in SampleKMs}
        \cup {<<>>}

KmSign ==
    /\ pc = "idle"
    /\ \E k \in KeyInputs, e \in BOOLEAN, b \in KMInputs, w \in BOOLEAN :
        LET i == [key |-> k, kmIn |-> [err |-> e, data |-> b], writeErr |-> w]
        IN  Invoke("sign-KM", i, signKMCmdRun(i))

\* The calls of signBPMCmd.Run in the order of its statements.
signBPMLog ==
    <<"ReadFile(Key)", "DecryptPrivKey", "ReadFile(BpmIn)", "ReadFrom",
      "NewSignature", "SetPubKey", "WriteBPM", "RehashRecursive",
      "SetSignature", "WriteBPM", "WriteFile(BpmOut)">>

\* The type switch of signBPMCmd.Run: the new signature element with the
\* public half of an RSA or elliptic-curve key bound (SetPubKey's error is
\* dropped); any other key object ends the run.
kAsOf(kind) ==
    IF kind \in {"RSA", "ECDSA"}
    THEN [err |-> nil,
          kAs |-> [NewSignature EXCEPT !.Key = SetPubKey(NewSignature.Key, kind).key]]
    ELSE [err |-> "InvalidKeyTypeError", kAs |-> NewSignature]

\* unsignedBPM := bpmRaw[:bpm.KeySignatureOffset]
unsignedBPM(bpmRaw, bpm) == GoSlice(bpmRaw, bpm.KeySignatureOffset, Len(bpmRaw), 0)

\* signBPMCmd.Run. i.key: the private key file; i.bpmIn: ReadFile of the
\* input manifest; i.writeErr: whether the final WriteFile fails.
signBPMCmdRun(i) ==
    LET L       == signBPMLog
        Stop(e, n) == Outcome(e, Prefix(L, n), NoFiles, <<>>, <<>>, <<>>)
        rd      == BPMReadFrom(i.bpmIn.data)
        sw      == kAsOf(i.key)
        w1      == WriteBPM([rd.bpm EXCEPT !.PMSE = sw.kAs])
        bpmRaw  == w1.bytes
        bpm     == BPMRehashRecursive(w1.bpm)
        cut     == unsignedBPM(bpmRaw, bpm)
        call    == [data |-> cut.bytes, buf |-> bpmRaw, bufAt |-> IndexOf(L, "WriteBPM"),
                    at |-> IndexOf(L, "SetSignature"), key |-> i.key]
        sg      == SignatureSetSignature(bpm.PMSE.Signature, 0, i.key, cut.bytes)
        signedM == [bpm EXCEPT !.PMSE.Signature = sg.sig]
        w2      == WriteBPM(signedM)
    IN  IF i.key = "unreadable" THEN Stop("ReadFileError", 1)
        ELSE IF i.key = "undecryptable" THEN Stop("DecryptError", 2)
        ELSE IF i.bpmIn.err THEN Stop("ReadFileError", 3)
        ELSE IF rd.err # nil /\ rd.err # "EOF" THEN Stop(rd.err, 4)
        ELSE IF sw.err # nil THEN Outcome(sw.err, Prefix(L, 5), NoFiles, <<>>, <<>>, <<rd.bpm>>)
        ELSE IF w1.err # nil THEN Outcome(w1.err, Prefix(L, 7), NoFiles, <<>>, <<>>, <<w1.bpm>>)
        ELSE IF cut.panic \/ ~ImplementsSigner(i.key)
        THEN Outcome("panic", Prefix(L, 8), NoFiles, <<>>, <<>>, <<bpm>>)
        ELSE IF sg.err # nil
        THEN Outcome(sg.err, Prefix(L, 9), NoFiles, <<call>>, <<>>, <<signedM>>)
        ELSE IF w2.err # nil
        THEN Outcome(w2.err, Prefix(L, 10), NoFiles, <<call>>, <<>>, <<w2.bpm>>)
        ELSE IF i.writeErr
        THEN Outcome("WriteFileError", L, NoFiles, <<call>>, <<>>, <<w2.bpm>>)
        ELSE Outcome(nil, L, [NoFiles EXCEPT !["BpmOut"] = Written(w2.bytes)],
                     <<call>>, <<>>, <<w2.bpm>>)

\* Boot policy manifests an input file may hold: with or without TXT element,
\* a digest that is current or stale, a signature element that is
\* unpopulated, carries the placeholder tags of generate-BPM, or is signed.
SampleBPMs ==
    {[ZeroBPM EXCEPT !.BPMSVN = v, !.SE = <<[PBETValue |-> 0, DigestList |-> h]>>,
                     !.TXTE = t, !.Digest = d, !.PMSE = p] :
        v \in V, h \in SeqUpTo(V, MaxList), t \in {<<>>, <<1>>}, d \in V,
        p \in {NewSignature,
               [Key |-> [KeyAlg |-> 1, Data |-> 0], Signature |-> [HashAlg |-> 1, Data |-> <<>>]],
               [Key |-> SetPubKey(NewKey, "RSA").key, Signature |-> [HashAlg |-> 1, Data |-> <<1>>]]}}

\* Input files of sign-BPM: whole manifests, manifests cut at the signed
\* region's end, and an empty file.
BPMInputs ==
    {BPMBytes(m) : m \in SampleBPMs}
        \cup {Prefix(BPMBytes(m), PMSEOffset(m)) : m \in SampleBPMs}
        \cup {<<>>}

BpmSign ==
    /\ pc = "idle"
    /\ \E k \in KeyInputs, e \in BOOLEAN, b \in BPMInputs, w \in BOOLEAN :
        LET i == [key |-> k, bpmIn |-> [err |-> e, data |-> b], writeErr |-> w]
        IN  Invoke("sign-BPM", i, signBPMCmdRun(i))

\* ------------------------------------- export, read-config, template, keygen

\* acmExportCmd.Run, kmExportCmd.Run, bpmExportCmd.Run (alike but for the
\* structure written). i.fail: the external call that fails.
exportCmdRun(i) ==
    LET L == <<"ReadFile(BIOS)", "Create(Out)", "WriteBootGuardStructures">>
        Stop(e, n, f) == Outcome(e, Prefix(L, n), f, <<>>, <<>>, <<>>)
    IN  IF i.fail = "ReadFile(BIOS)" THEN Stop("ReadFileError", 1, NoFiles)
        ELSE IF i.fail = "Create(Out)" THEN Stop("CreateError", 2, NoFiles)
        ELSE IF i.fail = "WriteBootGuardStructures"
        THEN Stop("WriteBootGuardStructuresError", 3, [NoFiles EXCEPT !["ExportOut"] = Created])
        ELSE Stop(nil, 3, [NoFiles EXCEPT !["ExportOut"] = Written(<<1>>)])

Export ==
    /\ pc = "idle"
    /\ \E which \in {"export-acm", "export-km", "export-bpm"},
          f \in {"none", "ReadFile(BIOS)", "Create(Out)", "WriteBootGuardStructures"} :
        LET i == [fail |-> f] IN Invoke(which, i, exportCmdRun(i))

\* readConfigCmd.Run.
readConfigCmdRun(i) ==
    LET L == <<"Create(Config)", "ReadConfigFromBIOSImage">>
        Stop(e, n, f) == Outcome(e, Prefix(L, n), f, <<>>, <<>>, <<>>)
    IN  IF i.fail = "Create(Config)" THEN Stop("CreateError", 1, NoFiles)
        ELSE IF i.fail = "ReadConfigFromBIOSImage"
        THEN Stop("ReadConfigError", 2, [NoFiles EXCEPT !["Config"] = Created])
        ELSE Stop(nil, 2, [NoFiles EXCEPT !["Config"] = Written(<<1>>)])

ReadConfig ==
    /\ pc = "idle"
    /\ \E f \in {"none", "Create(Config)", "ReadConfigFromBIOSImage"} :
        LET i == [fail |-> f] IN Invoke("read-config", i, readConfigCmdRun(i))

\* templateCmd.Run.
templateCmdRun(i) ==
    LET L == <<"NewSE", "NewIBBSegment", "NewTXT", "Create(Path)", "WriteConfig">>
        Stop(e, n, f) == Outcome(e, Prefix(L, n), f, <<>>, <<>>, <<>>)
    IN  IF i.fail = "Create(Path)" THEN Stop("CreateError", 4, NoFiles)
        ELSE IF i.fail = "WriteConfig"
        THEN Stop("WriteConfigError", 5, [NoFiles EXCEPT !["Template"] = Created])
        ELSE Stop(nil, 5, [NoFiles EXCEPT !["Template"] = Written(<<1>>)])

Template ==
    /\ pc = "idle"
    /\ \E f \in {"none", "Create(Path)", "WriteConfig"} :
        LET i == [fail |-> f] IN Invoke("template", i, templateCmdRun(i))

\* versionCmd.Run, kmPrintCmd.Run, bpmPrintCmd.Run, acmPrintCmd.Run,
\* biosPrintCmd.Run: read, parse and print; no file is written.
printCmdRun(i) ==
    LET L == <<"ReadFile(Path)", "Parse", "Print">>
        Stop(e, n) == Outcome(e, Prefix(L, n), NoFiles, <<>>, <<>>, <<>>)
    IN  IF i.fail = "ReadFile(Path)" THEN Stop("ReadFileError", 1)
        ELSE IF i.fail = "Parse" THEN Stop("ParseError", 2)
        ELSE IF i.fail = "Print" THEN Stop("PrintError", 3)
        ELSE Stop(nil, 3)

Show ==
    /\ pc = "idle"
    /\ \/ \E which \in {"show-km", "show-bpm", "show-acm", "show-all"},
             f \in {"none", "ReadFile(Path)", "Parse", "Print"} :
            LET i == [fail |-> f] IN Invoke(which, i, printCmdRun(i))
       \/ Invoke("version", [fail |-> "none"],
                 Outcome(nil, <<"ShowVersion">>, NoFiles, <<>>, <<>>, <<>>))

\* The key files of keygenCmd.Run in the order it creates them.
KeyFiles == <<"km_pub.pem", "km_priv.pem", "bpm_pub.pem", "bpm_priv.pem">>

\* The algorithms keygenCmd.Run knows.
KeygenAlgos == {"RSA2048", "RSA3072", "ECC224", "ECC256"}

\* The files with the first n key files created.
CreatedKeyFiles(n) ==
    [p \in Paths |-> IF \E k \in 1..n : KeyFiles[k] = p THEN Created ELSE NoFile]

\* keygenCmd.Run. i.algo: the algorithm argument; i.createFail: the index of
\* the os.Create that fails (0: none); i.genFail: whether key generation
\* fails.
keygenCmdRun(i) ==
    LET creates == [k \in 1..Len(KeyFiles) |-> "Create(" \o KeyFiles[k] \o ")"]
        gen     == IF i.algo \in {"RSA2048", "RSA3072"} THEN "GenRSAKey" ELSE "GenECCKey"
        Stop(e, l, f) == Outcome(e, l, f, <<>>, <<>>, <<>>)
    IN  IF i.createFail # 0
        THEN Stop("CreateError", Prefix(creates, i.createFail), CreatedKeyFiles(i.createFail - 1))
        ELSE IF i.algo \notin KeygenAlgos
        THEN Stop("InvalidAlgorithmError", creates, CreatedKeyFiles(Len(KeyFiles)))
        ELSE IF i.genFail
        THEN Stop("KeyGenError", creates \o <<gen>>, CreatedKeyFiles(Len(KeyFiles)))
        ELSE Stop(nil, creates \o <<gen>>,
                  [p \in Paths |-> IF \E k \in 1..Len(KeyFiles) : KeyFiles[k] = p
                                   THEN Written(<<1>>) ELSE NoFile])

KeyGen ==
    /\ pc = "idle"
    /\ \E a \in KeygenAlgos \cup {"DSA"}, c \in 0..Len(KeyFiles), gf \in BOOLEAN :
        LET i == [algo |-> a, createFail |-> c, genFail |-> gf]
        IN  Invoke("keygen", i, keygenCmdRun(i))

\* ------------------------------------------------------------ specification

Next ==
    \/ KeyGen
    \/ Export
    \/ ReadConfig
    \/ Template
    \/ Show
    \/ KmGen
    \/ BpmGen
    \/ KmSign
    \/ BpmSign
    \/ Stitch

Spec == Init /\ [][Next]_vars

\* ---------------------------------------------- the truncation step alone

\* The cut of generateKMCmd.Run as a function of the serialized bytes and the
\* offset it slices at, a stored field of options.KeyManifest that the
\* handler reads unchecked: inp.bytes is the buffer, inp.end the offset,
\* inp.slack the capacity the buffer has behind its length, inp.fill the
\* bytes that lie there.
InitCut ==
    /\ pc = "idle"
    /\ cmd = "truncate"
    /\ inp \in [bytes : SeqUpTo(V, MaxLen), end : 0..(MaxLen + 1), slack : 0..1, fill : V]
    /\ out = Outcome(nil, <<>>, NoFiles, <<>>, <<>>, <<>>)

Truncate ==
    /\ pc = "idle"
    /\ LET km  == [NewManifest EXCEPT !.KeyManifestSignatureOffset = inp.end]
           cut == cutKM(inp.bytes, km, Len(inp.bytes) + inp.slack, inp.fill)
       IN  /\ pc' = "done"
           /\ out' = IF cut.panic
                     THEN Outcome("panic", <<"cut">>, NoFiles, <<>>, <<>>, <<>>)
                     ELSE Outcome(nil, <<"cut", "WriteFile(KM)">>,
                                  [NoFiles EXCEPT !["KM"] = Written(cut.bytes)],
                                  <<>>, <<>>, <<>>)
           /\ UNCHANGED <<cmd, inp>>

NextCut ==
    \/ Truncate

SpecCut == InitCut /\ [][NextCut]_vars

\* ------------------------------------------- generate, then sign the file

\* Two invocations in a row: generate-KM or generate-BPM writes the manifest
\* file, whole or cut (--cut), and the matching sign command is run on that
\* file. pc = "generated" between the two; the sign run keeps the arguments
\* of the generate run that wrote its input in inp.from.
InitFlow ==
    /\ pc = "idle"
    /\ cmd = "none"
    /\ inp = <<>>
    /\ out = Outcome(nil, <<>>, NoFiles, <<>>, <<>>, <<>>)

\* The first invocation: a handler run whose files stay on disk.
Generated(c, i, o) ==
    /\ pc' = "generated"
    /\ cmd' = c
    /\ inp' = i
    /\ out' = o

FlowKmGen ==
    /\ pc = "idle"
    /\ \E fl \in KMFlags, c, ct \in BOOLEAN, cfg \in ConfigKMs, pub \in {"RSA", "ECDSA"} :
        LET g == [Config |-> c, Revision |-> fl.Revision, SVN |-> fl.SVN, ID |-> fl.ID,
                  PKHashAlg |-> fl.PKHashAlg, KMHashes |-> fl.KMHashes,
                  BpmPubkey |-> FALSE, Out |-> FALSE, Cut |-> ct, PrintME |-> FALSE]
            i == [g |-> g, cfg |-> IF c THEN cfg ELSE NewManifest, kh |-> <<1>>,
                  pub |-> pub, fail |-> "none"]
        IN  Generated("generate-KM", i, generateKMCmdRun(i))

FlowBpmGen ==
    /\ pc = "idle"
    /\ \E fl \in BPMFlags, c, ct \in BOOLEAN, cfg \in ConfigBPMs, bios \in V :
        LET g == [Config |-> c, Revision |-> fl.Revision, SVN |-> fl.SVN, PBET |-> fl.PBET,
                  IbbHash |-> fl.IbbHash, SintMin |-> fl.SintMin, Out |-> FALSE, Cut |-> ct]
            i == [g |-> g, cfg |-> IF c THEN cfg ELSE ZeroBPM, bios |-> bios, fail |-> "none"]
        IN  Generated("generate-BPM", i, generateBPMCmdRun(i))

\* sign-KM on the file generate-KM wrote.
FlowKmSign ==
    /\ pc = "generated" /\ cmd = "generate-KM" /\ out.ret = nil
    /\ \E k \in KeyKinds, w \in BOOLEAN :
        LET i == [key |-> k, kmIn |-> [err |-> FALSE, data |-> out.files["KM"].data],
                  writeErr |-> w, from |-> inp]
        IN  Invoke("sign-KM", i, signKMCmdRun(i))

\* sign-BPM on the file generate-BPM wrote.
FlowBpmSign ==
    /\ pc = "generated" /\ cmd = "generate-BPM" /\ out.ret = nil
    /\ \E k \in KeyKinds, w \in BOOLEAN :
        LET i == [key |-> k, bpmIn |-> [err |-> FALSE, data |-> out.files["BPM"].data],
                  writeErr |-> w, from |-> inp]
        IN  Invoke("sign-BPM", i, signBPMCmdRun(i))

NextFlow ==
    \/ FlowKmGen
    \/ FlowBpmGen
    \/ FlowKmSign
    \/ FlowBpmSign

SpecFlow == InitFlow /\ [][NextFlow]_vars

\* ------------------------------------------------------------------ claims

Done(c) == pc = "done" /\ cmd = c

SignCmds == {"sign-KM", "sign-BPM"}

\* signedRegionEnd as the layout of a serialized buffer gives it: the offset
\* at which its signature descriptor starts.
SignedRegionEnd(c, b) ==
    IF c = "sign-KM" THEN KMReadFrom(b).km.KeyManifestSignatureOffset
    ELSE BPMReadFrom(b).bpm.KeySignatureOffset

\* Whether some output file exists after the run.
SomeFile == \E p \in Paths : out.files[p].exists

\* C1: in every run of sign-KM and sign-BPM the signer is handed exactly
\* buf[0:signedRegionEnd] of the serialized manifest buf: never the whole
\* buffer, never a byte of the signature region.
C1_SignerGetsSignedPrefix ==
    pc = "done" /\ cmd \in SignCmds =>
        \A k \in 1..Len(out.signed) :
            LET s == out.signed[k]
            IN  /\ s.data = Prefix(s.buf, SignedRegionEnd(cmd, s.buf))
                /\ Len(s.data) < Len(s.buf)

\* C1 witness: a successful sign-KM run on a whole manifest with trailing
\* signature, the signer called once.
C1_Witness ==
    /\ Done("sign-KM") /\ out.ret = nil /\ Len(out.signed) = 1
    /\ Len(out.signed[1].buf) > Len(out.signed[1].data) + 2

\* Position of the last RehashRecursive of the log before position n (0: none).
LastRehashBefore(l, n) ==
    IF \E k \in 1..(n - 1) : k <= Len(l) /\ l[k] = "RehashRecursive"
    THEN CHOOSE k \in 1..(n - 1) :
            /\ k <= Len(l) /\ l[k] = "RehashRecursive"
            /\ \A j \in (k + 1)..(n - 1) : j <= Len(l) => l[j] # "RehashRecursive"
    ELSE 0

\* C2: in every signing run (taken here: every one that ends well) the buffer
\* whose prefix is signed was serialized after the last rehash of the
\* manifest: rehash, then serialize, then sign.
C2_SignedBufferSerializedAfterRehash ==
    pc = "done" /\ cmd \in SignCmds /\ out.ret = nil =>
        \A k \in 1..Len(out.signed) :
            LET s == out.signed[k]
                r == LastRehashBefore(out.log, s.at)
            IN  r > 0 /\ r < s.bufAt /\ s.bufAt < s.at

C4_StitchPayloads ==
    Done("stitch") =>
        IF inp.acm.data = <<>> /\ inp.km.data = <<>> /\ inp.bpm.data = <<>>
        THEN out.ret = "NoPayloadError" /\ out.stitched = <<>>
        ELSE /\ out.ret # "NoPayloadError"
             /\ out.stitched = <<[acm |-> inp.acm.data, bpm |-> inp.bpm.data,
                                  km |-> inp.km.data]>>

\* C4 witness: a stitch run with an empty ACM and a KM payload, stitched.
C4_Witness ==
    /\ Done("stitch") /\ inp.acm.data = <<>> /\ inp.km.data # <<>>
    /\ Len(out.stitched) = 1 /\ out.ret = nil

\* The key-algorithm tag recorded in the signature element of the input
\* manifest of a sign run (0: none recorded, or the input not decodable).
RecordedKeyAlg ==
    IF cmd = "sign-KM"
    THEN LET r == KMReadFrom(inp.kmIn.data)
         IN  IF ~inp.kmIn.err /\ r.err = nil THEN r.km.KeyAndSignature.Key.KeyAlg ELSE 0
    ELSE LET r == BPMReadFrom(inp.bpmIn.data)
         IN  IF ~inp.bpmIn.err /\ r.err = nil THEN r.bpm.PMSE.Key.KeyAlg ELSE 0

\* C5: signing with a private key whose kind differs from the kind recorded
\* in the manifest's signature element fails with KeyAlgorithmMismatchError
\* and writes no signed manifest, in sign-KM as in sign-BPM.
C5_MismatchedKeyKindFails ==
    pc = "done" /\ cmd \in SignCmds /\ inp.key \in {"RSA", "ECDSA"}
        /\ RecordedKeyAlg # 0 /\ RecordedKeyAlg # KeyAlgOf(inp.key)
    => out.ret = "KeyAlgorithmMismatchError" /\ ~SomeFile

\* C6: the manifest generate-BPM writes carries key-algorithm tag 0 and
\* signature hash-algorithm tag 0 in its signature element.
C6_GeneratedTagsUnpopulated ==
    Done("generate-BPM") /\ out.ret = nil =>
        LET r == BPMReadFrom(out.files["BPM"].data)
        IN  r.bpm.PMSE.Key.KeyAlg = 0 /\ r.bpm.PMSE.Signature.HashAlg = 0

\* C7: a field override supplied as a flag (a value other than the flag's
\* zero default) is the value of that field in the manifest assembled,
\* with a config file as without.
C7_FlagOverridesApplied ==
    /\ Done("generate-KM") /\ out.ret = nil =>
        LET m == out.man[1]
            g == inp.g
        IN  /\ g.Revision # 0 => m.Revision = g.Revision
            /\ g.SVN # 0 => m.KMSVN = g.SVN
            /\ g.ID # 0 => m.KMID = g.ID
            /\ g.PKHashAlg # 0 => m.PubKeyHashAlg = g.PKHashAlg
            /\ g.KMHashes # <<>> /\ ~g.BpmPubkey => m.Hash = g.KMHashes
    /\ Done("generate-BPM") /\ out.ret = nil =>
        LET m == out.man[1]
            g == inp.g
        IN  /\ g.Revision # 0 => m.BPMRevision = g.Revision
            /\ g.SVN # 0 => m.BPMSVN = g.SVN
            /\ g.PBET # 0 => Len(m.SE) > 0 /\ m.SE[1].PBETValue = g.PBET
            /\ g.SintMin # 0 => m.TXTE = <<g.SintMin>>

\* C8: when reading any of the ACM, KM and BPM payloads fails, stitch returns
\* an error and stitches nothing.
C8_StitchReadErrorReported ==
    Done("stitch") /\ (inp.acm.err \/ inp.km.err \/ inp.bpm.err)
    => out.ret # nil /\ out.stitched = <<>>

\* C9: sign-KM and sign-BPM end by returning a value, never by a runtime
\* abort; with a key object that is no RSA or elliptic-curve key they return
\* an error and write nothing.
C9_SignNeverAborts ==
    pc = "done" /\ cmd \in SignCmds =>
        /\ out.ret # "panic"
        /\ inp.key \notin {"RSA", "ECDSA"} => out.ret # nil /\ ~SomeFile

\* Errors of the calls that write an output file's content: a run they end
\* had its result in memory before it touched the file.
WriteErrors == {"WriteConfigError", "WriteFileError"}

\* C10: a run that ends with an error has created, truncated or written no
\* output file: every file is touched only once the complete result stands
\* in memory (the failures of the writes themselves set aside).
C10_NoFileOnError ==
    pc = "done" /\ out.ret # nil /\ out.ret \notin WriteErrors => ~SomeFile

\* The file a sign command writes the signed manifest to.
SignOutPath == IF cmd = "sign-KM" THEN "KmOut" ELSE "BpmOut"

\* C11: in every successful sign-KM or sign-BPM run the bytes handed to the
\* signer are byte for byte the prefix [0:signedRegionEnd] of the signed
\* manifest written: the rehash and the re-serialization between taking the
\* prefix and writing the output change no byte of the signed region.
C11_SignedBytesArePrefixOfOutput ==
    pc = "done" /\ cmd \in SignCmds /\ out.ret = nil =>
        LET w == out.files[SignOutPath].data
        IN  /\ Len(out.signed) = 1
            /\ out.signed[1].data = Prefix(w, SignedRegionEnd(cmd, w))

\* The manifest file generate writes for the arguments gi of a generate run,
\* whole (ct = FALSE) or cut (ct = TRUE), and the manifest it serializes.
GeneratedFile(c, gi, ct) ==
    IF c = "sign-KM"
    THEN generateKMCmdRun([gi EXCEPT !.g.Cut = ct]).files["KM"].data
    ELSE generateBPMCmdRun([gi EXCEPT !.g.Cut = ct]).files["BPM"].data

Decoded(c, b) == IF c = "sign-KM" THEN KMReadFrom(b).km ELSE BPMReadFrom(b).bpm

NonSignatureFields(c, m) ==
    IF c = "sign-KM" THEN [m EXCEPT !.KeyAndSignature.Signature = NewSig]
    ELSE [m EXCEPT !.PMSE.Signature = NewSig]

\* Whether the private key of the sign run is one the run can sign the file
\* with: for sign-KM the key whose public half generate-KM bound, for
\* sign-BPM an RSA or elliptic-curve key.
UsableKey ==
    IF cmd = "sign-KM" THEN inp.key = inp.from.pub ELSE inp.key \in {"RSA", "ECDSA"}

\* C13: the cut file generate --cut writes is accepted by the matching sign
\* command, for KM as for BPM: decoding it does not end the run with an
\* error, it yields the non-signature fields of the untruncated manifest,
\* and the run writes a signed manifest.
C13_CutArtifactAccepted ==
    pc = "done" /\ cmd \in SignCmds /\ inp.from.g.Cut /\ UsableKey /\ ~inp.writeErr =>
        LET cutFile == IF cmd = "sign-KM" THEN inp.kmIn.data ELSE inp.bpmIn.data
        IN  /\ out.ret = nil
            /\ out.files[SignOutPath].exists
            /\ NonSignatureFields(cmd, Decoded(cmd, cutFile))
                 = NonSignatureFields(cmd, Decoded(cmd, GeneratedFile(cmd, inp.from, FALSE)))

====
